---- MODULE Spec2Model ----
(***************************************************************************)
(* Swift Transfer front end: the upload page (src/src/App.tsx), the        *)
(* transfer viewer (TransferPage) and the uploads list (MyUploadsPage).    *)
(*                                                                         *)
(* A React component is modelled by its useState cells; an async handler   *)
(* by a record holding its position (pc) and the values its closure        *)
(* captured.  One action is one synchronous run of JavaScript: from an     *)
(* event (a click, a response arriving) to the next await.                 *)
(*                                                                         *)
(* Texts are sequences of string tokens: the template literal              *)
(* `Init failed (${s}): ${t}` is <<"Init failed (", s, "): ", t>>, and the *)
(* empty string is << >>.                                                  *)
(***************************************************************************)
EXTENDS Integers, Sequences, FiniteSets, Bags, TLC

\* ------------------------------------------------------------------ bounds
\* Most files the selection may hold.
MaxFiles == 2
\* Most files one picker / drop event delivers.
MaxIncoming == 2
\* The clock runs from 1 to MaxTime.
MaxTime == 3

\* ------------------------------------------------------------ environment
\* Local files the user can pick.  ref is the identity of the File object;
\* files 1 and 3 are different files with the same name and byte size.
LocalFiles ==
  { [ref |-> 1, name |-> "a.bin", size |-> 1, type |-> ""],
    [ref |-> 2, name |-> "b.txt", size |-> 2, type |-> "text/plain"],
    [ref |-> 3, name |-> "a.bin", size |-> 1, type |-> ""] }

\* HTTP statuses with res.ok false, and response bodies.
FailStatuses == {"403", "500"}
Bodies == {"denied"}

\* Share URLs the completion endpoint may return, as "/"-split segments;
\* << >> is a response without shareUrl.
BackendShareUrls == { << >>, <<"https:", "", "host", "t", "T1">> }

\* Values typed into the recipient field.
EmailInputs == {"", " ", "x@y.z"}

Text(s) == <<s>>
NoText == << >>
NumStr(n) == <<"0", "1", "2", "3", "4", "5", "6", "7", "8">>[n + 1]
Contains(text, tok) == \E j \in 1..Len(text) : text[j] = tok

RECURSIVE SeqsUpTo(_, _)
\* Sequences over S, without repetition, of length 1..n.
SeqsUpTo(S, n) ==
  IF n = 0 THEN {}
  ELSE LET shorter == SeqsUpTo(S, n - 1)
       IN  {<<x>> : x \in S} \cup shorter
             \cup {Append(q, x) : q \in shorter, x \in S}

NoRepeat(q) == \A a, b \in 1..Len(q) : a # b => q[a] # q[b]
Incoming == {q \in SeqsUpTo(LocalFiles, MaxIncoming) : NoRepeat(q)}

\* ------------------------------------------------------------------ state
VARIABLES
  page,            \* the view on display: "upload", "viewer", "list", "auth",
                   \* "guard" (the guard's placeholder) or "away"
  \* UploadPage (App.tsx) state cells
  files, isUploading, isFinalizing, status, error, shareUrl,
  emailTo, isSendingEmail, emailStatus, uploadedCount, copyHint,
  up,              \* the running handleUpload: pc, closure, loop index
  inflight,        \* requests sent and not yet answered
  \* history of the current / last upload attempt, kept until the selection
  \* next changes
  log, submitted, initPayload, completePayload,
  last,            \* the last of addFiles, removeFile, clearAll, handleUpload
  now,             \* the clock, Date.now()
  \* TransferPage state cells
  transferId,      \* useParams().transferId
  data, vLoading, vError, downloadingIndex, downloadingAll,
  isExpired,       \* the value useMemo holds
  expiredDep,      \* the dependency [data?.expiresAt] it was computed for
  loads,           \* runs of the load effect still awaiting their response
  loadedAt,        \* history: the clock when data was last set (0: never)
  downloads,       \* the bag of handleDownload calls still awaiting
  zip,             \* handleDownloadAllZip: "idle", "fetch" or "timer"
  zipAuth,         \* the Authorization header of the archive fetch on the wire
  \* MyUploadsPage state cells
  user,            \* the identity the AuthProvider holds ("" for none)
  uploads, lLoading, lError,
  renderNow,       \* const now = Date.now() of the last render
  fetches,         \* runs of the fetch effect still awaiting their response
  \* the browser and the AuthProvider
  clipboard,       \* the text on the system clipboard
  location,        \* the router's location: path and state.from
  authLoading,     \* the AuthProvider's loading cell
  resolved,        \* history: onAuthStateChanged has called back
  \* AuthPage state cells
  mode, email, pass,
  authStatus,      \* AuthPage's status cell
  signIns          \* the bag of sign-in calls still awaiting

pageVars == <<files, isUploading, isFinalizing, status, error, shareUrl,
              emailTo, isSendingEmail, emailStatus, uploadedCount, copyHint>>
opVars == <<up, inflight>>
histVars == <<log, submitted, initPayload, completePayload, last>>
uploadVars == <<pageVars, opVars, histVars>>
viewerVars == <<transferId, data, vLoading, vError, downloadingIndex,
                downloadingAll, isExpired, expiredDep, loads, loadedAt,
                downloads, zip, zipAuth>>
listVars == <<user, uploads, lLoading, lError, renderNow, fetches>>
authVars == <<mode, email, pass, authStatus, signIns>>
appVars == <<clipboard, location, authLoading, resolved, authVars>>
vars == <<page, now, uploadVars, viewerVars, listVars, appVars>>
notUpload == <<page, now, viewerVars, listVars, appVars>>
notViewer == <<page, uploadVars, listVars, appVars>>
notList == <<page, uploadVars, viewerVars, appVars>>

UpIdle == [pc |-> "idle", files |-> << >>, uploads |-> 0, i |-> 0]
NoLast == [op |-> "none", added |-> 0, hadShare |-> FALSE]

InitUploadVars ==
  /\ files = << >>
  /\ isUploading = FALSE
  /\ isFinalizing = FALSE
  /\ status = NoText
  /\ error = NoText
  /\ shareUrl = NoText
  /\ emailTo = ""
  /\ isSendingEmail = FALSE
  /\ emailStatus = NoText
  /\ uploadedCount = 0
  /\ copyHint = NoText
  /\ up = UpIdle
  /\ inflight = {}
  /\ log = << >>
  /\ submitted = << >>
  /\ initPayload = << >>
  /\ completePayload = << >>
  /\ last = NoLast

\* ------------------------------------------------------- UploadPage: view
\* Mutant: a pending email does not count as busy.
busyWithoutEmail == isUploading \/ isFinalizing

busy == isUploading \/ isFinalizing \/ isSendingEmail

\* Math.round(x / y * 100) for x >= 0, y > 0: halves round up.
RoundPct(x, y) == (200 * x + y) \div (2 * y)

\* Mutant: the ratio is not taken.
progressPctUnscaled ==
  IF Len(files) = 0 THEN 0 ELSE RoundPct(uploadedCount * Len(files), Len(files))

\* const totalCount = files.length; progressPct = !totalCount ? 0
\*   : Math.round((uploadedCount / totalCount) * 100)
progressPct ==
  IF Len(files) = 0 THEN 0 ELSE RoundPct(uploadedCount, Len(files))

\* {totalCount > 0 && (isUploading || isFinalizing) && (...)}
ProgressShown == Len(files) > 0 /\ (isUploading \/ isFinalizing)

\* const key = `${file.name}__${file.size}`
FileKey(f) == <<f.name, f.size>>

\* file.type || "application/octet-stream"
ContentType(t) == IF t = "" THEN "application/octet-stream" ELSE t

\* emailTo.trim()
Trim(s) == IF s = " " THEN "" ELSE s

\* crypto.randomUUID(): an identifier no entry of the selection carries.
\* Identifiers are only ever compared for equality with those of the current
\* selection, so the least unused number stands for a fresh UUID.
FreshId(used) == CHOOSE n \in 1..(Cardinality(used) + 1) : n \notin used

RECURSIVE WithIds(_, _)
\* incoming.map((file) => ({ file, id: crypto.randomUUID() }))
WithIds(q, used) ==
  IF q = << >> THEN << >>
  ELSE LET id == FreshId(used)
       IN  <<[file |-> Head(q), id |-> id]>> \o WithIds(Tail(q), used \cup {id})

IdsOf(sel) == {sel[j].id : j \in 1..Len(sel)}

\* existingKeys + filter + map of addFiles
Mapped(sel, list) ==
  LET existingKeys == {FileKey(sel[j].file) : j \in 1..Len(sel)}
      fresh(f) == FileKey(f) \notin existingKeys
  IN  WithIds(SelectSeq(list, fresh), IdsOf(sel))

\* The history of an upload attempt is kept until the selection next changes.
ForgetAttempt ==
  /\ log' = << >>
  /\ submitted' = << >>
  /\ initPayload' = << >>
  /\ completePayload' = << >>

\* The three setters of resetShareAndEmail.
resetShareAndEmail ==
  /\ shareUrl' = NoText
  /\ emailStatus' = NoText
  /\ copyHint' = NoText

\* Mutant: the reset runs only after the early return for "nothing new".
addFilesLateReset(list) ==
  LET mapped == Mapped(files, list)
  IN  /\ Len(files) + Len(mapped) <= MaxFiles
      /\ IF mapped = << >>
         THEN UNCHANGED <<shareUrl, emailStatus, copyHint, files>>
         ELSE resetShareAndEmail /\ files' = files \o mapped
      /\ last' = [op |-> "addFiles", added |-> Len(mapped),
                  hadShare |-> shareUrl # NoText]
      /\ ForgetAttempt
      /\ UNCHANGED <<isUploading, isFinalizing, status, error, emailTo,
                     isSendingEmail, uploadedCount, opVars>>

\* addFiles(list) for a non-null list.  A null list returns before any
\* setter runs: a step that changes nothing.
addFiles(list) ==
  LET mapped == Mapped(files, list)
  IN  /\ Len(files) + Len(mapped) <= MaxFiles
      /\ resetShareAndEmail
      /\ files' = IF mapped = << >> THEN files ELSE files \o mapped
      /\ last' = [op |-> "addFiles", added |-> Len(mapped),
                  hadShare |-> shareUrl # NoText]
      /\ ForgetAttempt
      /\ UNCHANGED <<isUploading, isFinalizing, status, error, emailTo,
                     isSendingEmail, uploadedCount, opVars>>

\* The hidden file input's onChange; it is opened by the "Choose files"
\* button, disabled={busy}.
PickFiles ==
  /\ page = "upload" /\ ~busy
  /\ \E list \in Incoming : addFiles(list)
  /\ UNCHANGED notUpload

\* onDrop: if (isUploading || isFinalizing || isSendingEmail) return;
DropFiles ==
  /\ page = "upload"
  /\ \E list \in Incoming :
       IF isUploading \/ isFinalizing \/ isSendingEmail
       THEN UNCHANGED uploadVars
       ELSE addFiles(list)
  /\ UNCHANGED notUpload

\* Mutant: removing a file leaves the share card as it is.
removeFileNoReset(id) ==
  LET keep(f) == f.id # id
  IN  /\ files' = SelectSeq(files, keep)
      /\ last' = [op |-> "removeFile", added |-> 0,
                  hadShare |-> shareUrl # NoText]
      /\ UNCHANGED <<shareUrl, emailStatus, copyHint, log, submitted,
                     initPayload, completePayload>>
      /\ UNCHANGED <<isUploading, isFinalizing, status, error, emailTo,
                     isSendingEmail, uploadedCount, opVars>>

\* removeFile(id), from a row's Remove button, disabled={busy}.
removeFile(id) ==
  LET keep(f) == f.id # id
  IN  /\ resetShareAndEmail
      /\ files' = SelectSeq(files, keep)
      /\ last' = [op |-> "removeFile", added |-> 0,
                  hadShare |-> shareUrl # NoText]
      /\ ForgetAttempt
      /\ UNCHANGED <<isUploading, isFinalizing, status, error, emailTo,
                     isSendingEmail, uploadedCount, opVars>>

RemoveFile ==
  /\ page = "upload" /\ ~busy
  /\ \E id \in IdsOf(files) : removeFile(id)
  /\ UNCHANGED notUpload

\* clearAll, from the "Clear all" button: rendered when files.length > 0,
\* disabled={busy}.
ClearAll ==
  /\ page = "upload" /\ ~busy /\ files # << >>
  /\ resetShareAndEmail
  /\ error' = NoText
  /\ status' = NoText
  /\ uploadedCount' = 0
  /\ files' = << >>
  /\ emailTo' = ""
  /\ last' = [op |-> "clearAll", added |-> 0, hadShare |-> shareUrl # NoText]
  /\ ForgetAttempt
  /\ UNCHANGED <<isUploading, isFinalizing, isSendingEmail, opVars, notUpload>>

\* --------------------------------------------------- UploadPage: requests
\* A request on the wire, and an entry of the attempt's history.
Req(op, idx) == [op |-> op, idx |-> idx]
Ev(op, idx, res, st, body) ==
  [op |-> op, idx |-> idx, res |-> res, status |-> st, body |-> body]
Sent(op, idx) == Ev(op, idx, "sent", "", "")

\* What a fetch() may come back with: a rejected promise (network error), a
\* non-success HTTP status with a body, or a success.
Rejected == [rejected |-> TRUE, ok |-> FALSE, status |-> "", body |-> ""]
HttpFailures ==
  {[rejected |-> FALSE, ok |-> FALSE, status |-> s, body |-> b] :
     s \in FailStatuses, b \in Bodies}
HttpOk == [rejected |-> FALSE, ok |-> TRUE, status |-> "200", body |-> ""]
Responses == {Rejected, HttpOk} \cup HttpFailures
Answered(op, idx, r) ==
  Ev(op, idx, IF r.rejected THEN "rejected" ELSE IF r.ok THEN "ok" ELSE "fail",
     r.status, r.body)

\* initJson.uploads.length as the backend may answer it: no uploads at all,
\* fewer slots than files, as many, or more.
SlotCounts == 0..(MaxFiles + 1)

\* Mutant: the last selected file is left out of the request.
InitPayloadOfShort(sel) ==
  [j \in 1..(Len(sel) - 1) |->
     [name |-> sel[j].file.name,
      type |-> ContentType(sel[j].file.type),
      size |-> sel[j].file.size]]

\* files.map((f) => ({ name, type: f.file.type || "application/octet-stream", size }))
InitPayloadOf(sel) ==
  [j \in 1..Len(sel) |->
     [name |-> sel[j].file.name,
      type |-> ContentType(sel[j].file.type),
      size |-> sel[j].file.size]]

\* files.map((f, i) => ({ ..., objectPath: initJson.uploads[i]?.objectPath }))
CompletePayloadOf(sel, slots) ==
  [j \in 1..Len(sel) |->
     [name |-> sel[j].file.name,
      type |-> ContentType(sel[j].file.type),
      size |-> sel[j].file.size,
      objectPath |-> IF j <= slots THEN NumStr(j) ELSE "undefined"]]

\* Mutant: the loop starts one slot too far.
LoopFromSkip(i, slots, sel) ==
  IF i + 1 > slots \/ i + 1 > Len(sel) THEN 0 ELSE i + 1

RECURSIVE LoopFrom(_, _, _)
\* for (let i ...; i < uploads.length; i++) { file = files[i]?.file;
\*   if (!file) continue; ... }: the first slot from i on that has a file,
\* 0 when the loop runs out.  Slots and files are numbered from 1 here.
LoopFrom(i, slots, sel) ==
  IF i > slots THEN 0
  ELSE IF i > Len(sel) THEN LoopFrom(i + 1, slots, sel)
  ELSE i

\* Mutant: a failed PUT does not abort the loop.
PutOutcomeIgnore(ok) == "continue"

\* if (!putRes.ok) throw ...; otherwise the loop goes on.
PutOutcome(ok) == IF ok THEN "continue" ELSE "throw"

\* Mutant: the message names the first file of the selection.
PutErrorFirstFile(sel, i, st, body) ==
  <<"Upload failed for ", sel[1].file.name, ": ", st, " ", body>>

\* new Error(`Upload failed for ${file.name}: ${putRes.status} ${text}`),
\* with file = files[i].file of the closure.
PutError(sel, i, st, body) ==
  <<"Upload failed for ", sel[i].file.name, ": ", st, " ", body>>

\* Mutant: the status of the init response is not looked at.
InitOutcomeIgnoreStatus(ok, slots) ==
  IF slots = 0 THEN "throwMissing" ELSE "continue"

\* if (!initRes.ok) throw ...; if (!initJson.uploads?.length) throw ...
InitOutcome(ok, slots) ==
  IF ~ok THEN "throwStatus"
  ELSE IF slots = 0 THEN "throwMissing"
  ELSE "continue"

\* Mutant: the finally block leaves isFinalizing set.
CatchNoFinally(msg) ==
  /\ error' = msg
  /\ isUploading' = FALSE
  /\ up' = UpIdle
  /\ UNCHANGED isFinalizing

\* Mutant: the finally block leaves isUploading set.
CatchFinallyKeepsUploading(msg) ==
  /\ error' = msg
  /\ isFinalizing' = FALSE
  /\ up' = UpIdle
  /\ UNCHANGED isUploading

\* catch { setError(e.message) } finally { setIsFinalizing(false);
\* setIsUploading(false) }: the attempt ends with message msg.
CatchFinally(msg) ==
  /\ error' = msg
  /\ isFinalizing' = FALSE
  /\ isUploading' = FALSE
  /\ up' = UpIdle

\* The body of the upload loop from slot i on, up to the next await: either
\* the PUT of the next file is sent, or the loop is over and the completion
\* request is sent.
LoopOrComplete(i, slots, sel, history, pending) ==
  LET j == LoopFrom(i, slots, sel)
  IN  IF j # 0
      THEN /\ status' = <<"Uploading ", NumStr(j), "/", NumStr(slots), ": ",
                          sel[j].file.name>>
           /\ inflight' = pending \cup {Req("put", j)}
           /\ log' = Append(history, Sent("put", j))
           /\ up' = [pc |-> "awaitPut", files |-> sel, uploads |-> slots,
                     i |-> j]
           /\ UNCHANGED <<isFinalizing, completePayload>>
      ELSE /\ isFinalizing' = TRUE
           /\ status' = Text("Finalizing transfer (generating share link)...")
           /\ inflight' = pending \cup {Req("complete", 0)}
           /\ log' = Append(history, Sent("complete", 0))
           /\ completePayload' = CompletePayloadOf(sel, slots)
           /\ up' = [pc |-> "awaitComplete", files |-> sel,
                     uploads |-> slots, i |-> i]

\* The Upload button: disabled={busy || !files.length}.
UploadEnabled == ~busy /\ files # << >>

\* handleUpload up to its first await.
HandleUpload ==
  /\ page = "upload" /\ UploadEnabled /\ up.pc = "idle"
  /\ emailStatus' = NoText
  /\ shareUrl' = NoText
  /\ copyHint' = NoText
  /\ uploadedCount' = 0
  /\ IF files = << >>
     THEN /\ error' = Text("Selecteaza cel putin un fisier.")
          /\ status' = NoText
          /\ UNCHANGED <<isUploading, opVars, log, submitted, initPayload>>
     ELSE /\ error' = NoText
          /\ isUploading' = TRUE
          /\ status' = Text("Initializing transfer...")
          /\ up' = [pc |-> "awaitInit", files |-> files, uploads |-> 0,
                    i |-> 0]
          /\ inflight' = inflight \cup {Req("init", 0)}
          /\ log' = <<Sent("init", 0)>>
          /\ submitted' = files
          /\ initPayload' = InitPayloadOf(files)
  /\ completePayload' = << >>
  /\ last' = [op |-> "handleUpload", added |-> 0, hadShare |-> shareUrl # NoText]
  /\ UNCHANGED <<files, isFinalizing, emailTo, isSendingEmail, notUpload>>

\* handleUpload and handleSendEmail hold no "cancelled" flag: a call that
\* awaits resumes and calls its setters whether or not the page is still
\* mounted.  After an unmount the cells stand for what the setters were last
\* called with (React drops such an update).

\* The init response arrives: lines 177-196 and, for a failure, 245-250.
InitResponse ==
  /\ up.pc = "awaitInit" /\ Req("init", 0) \in inflight
  /\ \E r \in Responses, slots \in SlotCounts :
       LET history == Append(log, Answered("init", slots, r))
           outcome == InitOutcome(r.ok, slots)
       IN  /\ r.ok \/ slots = 0
           /\ IF r.rejected
              THEN /\ CatchFinally(Text("Failed to fetch"))
                   /\ inflight' = inflight \ {Req("init", 0)}
                   /\ log' = history
                   /\ UNCHANGED <<status, completePayload>>
              ELSE IF outcome = "throwStatus"
              THEN /\ CatchFinally(<<"Init failed (", r.status, "): ", r.body>>)
                   /\ inflight' = inflight \ {Req("init", 0)}
                   /\ log' = history
                   /\ UNCHANGED <<status, completePayload>>
              ELSE IF outcome = "throwMissing"
              THEN /\ CatchFinally(Text("Init response missing uploads."))
                   /\ inflight' = inflight \ {Req("init", 0)}
                   /\ log' = history
                   /\ UNCHANGED <<status, completePayload>>
              ELSE /\ LoopOrComplete(1, slots, up.files, history,
                                   inflight \ {Req("init", 0)})
                   /\ UNCHANGED <<error, isUploading>>
  /\ UNCHANGED <<files, shareUrl, emailTo, copyHint, isSendingEmail, emailStatus,
                 uploadedCount, submitted, initPayload, last, notUpload>>

\* A PUT response arrives: lines 206-212, then the loop or lines 215-230.
PutResponse ==
  /\ up.pc = "awaitPut"
  /\ \E q \in inflight, r \in Responses :
       LET history == Append(log, Answered("put", q.idx, r))
       IN  /\ q.op = "put"
           /\ IF r.rejected
              THEN /\ CatchFinally(Text("Failed to fetch"))
                   /\ inflight' = inflight \ {q} /\ log' = history
                   /\ UNCHANGED <<status, completePayload, uploadedCount>>
              ELSE IF PutOutcome(r.ok) = "throw"
              THEN /\ CatchFinally(PutError(up.files, q.idx, r.status, r.body))
                   /\ inflight' = inflight \ {q} /\ log' = history
                   /\ UNCHANGED <<status, completePayload, uploadedCount>>
              ELSE /\ uploadedCount' = uploadedCount + 1
                   /\ LoopOrComplete(q.idx + 1, up.uploads, up.files, history,
                                   inflight \ {q})
                   /\ UNCHANGED <<error, isUploading>>
  /\ UNCHANGED <<files, shareUrl, emailTo, copyHint, isSendingEmail, emailStatus,
                 submitted, initPayload, last, notUpload>>

\* The completion response arrives: lines 232-250.
CompleteResponse ==
  /\ up.pc = "awaitComplete"
  /\ Req("complete", 0) \in inflight
  /\ \E r \in Responses, url \in BackendShareUrls :
       /\ r.ok \/ url = << >>
       /\ log' = Append(log, Answered("complete", 0, r))
       /\ inflight' = inflight \ {Req("complete", 0)}
       /\ IF r.rejected
          THEN CatchFinally(Text("Failed to fetch"))
                 /\ UNCHANGED <<shareUrl, status>>
          ELSE IF ~r.ok
          THEN CatchFinally(<<"Complete failed (", r.status, "): ", r.body>>)
                 /\ UNCHANGED <<shareUrl, status>>
          ELSE IF url = << >>
          THEN CatchFinally(Text("Complete response missing shareUrl."))
                 /\ UNCHANGED <<shareUrl, status>>
          ELSE /\ shareUrl' = url
               /\ status' = Text("Upload complete. Share link generated!")
               /\ isFinalizing' = FALSE
               /\ isUploading' = FALSE
               /\ up' = UpIdle
               /\ UNCHANGED error
  /\ UNCHANGED <<files, emailTo, copyHint, isSendingEmail, emailStatus, uploadedCount,
                 submitted, initPayload, completePayload, last, notUpload>>

\* ------------------------------------------------------ UploadPage: email
\* shareUrl.split("/").filter(Boolean).pop(); "" stands for undefined.
TransferIdOf(url) ==
  LET nonEmpty(seg) == seg # ""
      segs == SelectSeq(url, nonEmpty)
  IN  IF segs = << >> THEN "" ELSE segs[Len(segs)]

\* The email card is rendered only under {shareUrl && ...}.
EmailCardShown == shareUrl # NoText

\* The recipient <Input>, disabled={isSendingEmail}.
SetEmailTo ==
  /\ page = "upload" /\ EmailCardShown /\ ~isSendingEmail
  /\ \E v \in EmailInputs : v # emailTo /\ emailTo' = v
  /\ UNCHANGED <<files, isUploading, isFinalizing, status, error, shareUrl,
                 isSendingEmail, emailStatus, uploadedCount, copyHint, opVars,
                 histVars, notUpload>>

\* The Send button: disabled={isSendingEmail || !emailTo.trim()}.
SendEnabled == EmailCardShown /\ ~isSendingEmail /\ Trim(emailTo) # ""

\* Mutant: the recipient is tested without trim().
handleSendEmailNoTrim ==
  /\ error' = NoText
  /\ IF shareUrl = NoText
     THEN /\ emailStatus' = Text("Nu exista share link inca.")
          /\ UNCHANGED <<isSendingEmail, inflight>>
     ELSE IF emailTo = ""
     THEN /\ emailStatus' = Text("Introdu o adresa de email.")
          /\ UNCHANGED <<isSendingEmail, inflight>>
     ELSE IF TransferIdOf(shareUrl) = ""
     THEN /\ emailStatus' = Text("Nu pot extrage transferId din shareUrl.")
          /\ UNCHANGED <<isSendingEmail, inflight>>
     ELSE /\ emailStatus' = NoText
          /\ isSendingEmail' = TRUE
          /\ inflight' = inflight \cup {Req("email", 0)}
  /\ UNCHANGED <<files, isUploading, isFinalizing, status, shareUrl, emailTo, copyHint,
                 uploadedCount, up, histVars, notUpload>>

\* handleSendEmail up to its await: the three guards, each ending the call
\* with an email status, then the request.
handleSendEmail ==
  /\ error' = NoText
  /\ IF shareUrl = NoText
     THEN /\ emailStatus' = Text("Nu exista share link inca.")
          /\ UNCHANGED <<isSendingEmail, inflight>>
     ELSE IF Trim(emailTo) = ""
     THEN /\ emailStatus' = Text("Introdu o adresa de email.")
          /\ UNCHANGED <<isSendingEmail, inflight>>
     ELSE IF TransferIdOf(shareUrl) = ""
     THEN /\ emailStatus' = Text("Nu pot extrage transferId din shareUrl.")
          /\ UNCHANGED <<isSendingEmail, inflight>>
     ELSE /\ emailStatus' = NoText
          /\ isSendingEmail' = TRUE
          /\ inflight' = inflight \cup {Req("email", 0)}
  /\ UNCHANGED <<files, isUploading, isFinalizing, status, shareUrl, emailTo, copyHint,
                 uploadedCount, up, histVars, notUpload>>

\* A click on the enabled Send button.
HandleSendEmail == page = "upload" /\ SendEnabled /\ handleSendEmail

\* handleSendEmail called while its button is disabled or not rendered (no
\* share URL, a blank recipient): the case its first two guards are for.
\* The page offers no such call; it is what the guards stand against.
CallSendEmail ==
  page = "upload" /\ ~SendEnabled /\ ~isSendingEmail /\ handleSendEmail

\* Mutant: the answer to the email request also takes the share URL away.
EmailResponseForgetsUrl ==
  /\ Req("email", 0) \in inflight
  /\ \E r \in Responses :
       emailStatus' =
         IF r.rejected THEN Text("Failed to fetch")
         ELSE IF ~r.ok THEN <<"Email failed (", r.status, "): ", r.body>>
         ELSE Text("Email trimis!")
  /\ isSendingEmail' = FALSE
  /\ shareUrl' = NoText
  /\ inflight' = inflight \ {Req("email", 0)}
  /\ UNCHANGED <<files, isUploading, isFinalizing, status, error,
                 emailTo, copyHint, uploadedCount, up, histVars, notUpload>>

\* The email response arrives: lines 297-307.
EmailResponse ==
  /\ Req("email", 0) \in inflight
  /\ \E r \in Responses :
       emailStatus' =
         IF r.rejected THEN Text("Failed to fetch")
         ELSE IF ~r.ok THEN <<"Email failed (", r.status, "): ", r.body>>
         ELSE Text("Email trimis!")
  /\ isSendingEmail' = FALSE
  /\ inflight' = inflight \ {Req("email", 0)}
  /\ UNCHANGED <<files, isUploading, isFinalizing, status, error, shareUrl,
                 emailTo, copyHint, uploadedCount, up, histVars, notUpload>>

\* The browser's history (Back, Forward) shows another route: the upload
\* page is unmounted.  What the other route's view does is left out.
LeaveUpload ==
  /\ page = "upload"
  /\ page' = "away"
  /\ location' = [path |-> "/t", from |-> ""]
  /\ UNCHANGED <<now, uploadVars, viewerVars, listVars, clipboard,
                 authLoading, resolved, authVars>>

\* What navigator.clipboard.writeText may do: write and resolve, reject, or
\* not exist (navigator.clipboard undefined: a TypeError inside the try).
ClipboardApis == {"writes", "rejects", "missing"}

\* The clipboard after try { await navigator.clipboard.writeText(text) },
\* and whether the catch block is entered.
WriteText(api, text, clip) ==
  IF api = "writes" THEN [caught |-> FALSE, clip |-> text]
  ELSE [caught |-> TRUE, clip |-> clip]

\* handleCopyLink, from the Copy button of the share card: the hint says
\* how the write went, and the catch block copies nothing.
HandleCopyLink ==
  /\ page = "upload" /\ shareUrl # NoText
  /\ \E api \in ClipboardApis :
       LET tried == WriteText(api, shareUrl, clipboard)
       IN  /\ clipboard' = tried.clip
           /\ copyHint' = IF tried.caught THEN Text("Copy failed")
                          ELSE Text("Copied!")
  /\ UNCHANGED <<files, isUploading, isFinalizing, status, error, shareUrl,
                 emailTo, isSendingEmail, emailStatus, uploadedCount, opVars,
                 histVars, page, now, viewerVars, listVars, location,
                 authLoading, resolved, authVars>>

\* setTimeout(() => setCopyHint(""), ...): every hint comes with a timer.
CopyHintTimer ==
  /\ page = "upload" /\ copyHint # NoText
  /\ copyHint' = NoText
  /\ UNCHANGED <<files, isUploading, isFinalizing, status, error, shareUrl,
                 emailTo, isSendingEmail, emailStatus, uploadedCount, opVars,
                 histVars, notUpload>>

\* The copy action and its hint, which no other action reads, are left to
\* SpecCopy.
NextUpload ==
  \/ PickFiles \/ DropFiles \/ RemoveFile \/ ClearAll
  \/ HandleUpload \/ InitResponse \/ PutResponse \/ CompleteResponse
  \/ SetEmailTo \/ HandleSendEmail \/ EmailResponse

\* ============================================================ TransferPage
\* expiresAt: number | null.  Timestamps are positive milliseconds; 0 stands
\* for null (and is as falsy as null in `!data?.expiresAt`).
NoExpiry == 0
\* data?.expiresAt while data is null: undefined.
Undefined == -1
\* downloadingIndex: number | null; file indices count from 0.
NoIndex == -1
\* Most files a viewed transfer has.
MaxViewFiles == 2
\* Most handleDownload calls awaiting at once.
MaxDownloads == 2

TransferIds == {"A", "B"}
\* Expiry timestamps the backend hands out: before, at and after clock values.
ExpiryTimes == {1, 2}
BackendStatuses == {"draft", "ready"}

\* The TransferResponse bodies the metadata endpoint may answer with.
TransferRecords ==
  [status : BackendStatuses,
   expiresAt : {NoExpiry} \cup ExpiryTimes,
   nfiles : 0..MaxViewFiles]

\* The body the metadata endpoint answers with for transfer id: it names
\* the transfer it is about.
TransferResponse(id, d) ==
  [transferId |-> id, status |-> d.status, expiresAt |-> d.expiresAt,
   nfiles |-> d.nfiles]

\* data is << >> for null, <<d>> for a loaded TransferResponse d.
NoData == << >>

\* What getIdTokenSafe resolves to: "" for null (nobody signed in, or
\* user.getIdToken(true) rejected), or a token.
TokenOutcomes == {"", "tok"}

\* No Authorization header (and no request that could carry one).
NoHeader == << >>

\* headers: token ? { Authorization: `Bearer ${token}` } : undefined
AuthHeader(token) == IF token # "" THEN <<"Bearer ", token>> ELSE NoHeader

InitViewerCells ==
  /\ data = NoData
  /\ vLoading = TRUE
  /\ vError = NoText
  /\ downloadingIndex = NoIndex
  /\ downloadingAll = FALSE
  /\ isExpired = FALSE
  /\ expiredDep = Undefined
  /\ loadedAt = 0
  /\ downloads = EmptyBag
  /\ zip = "idle"
  /\ zipAuth = NoHeader

\* The viewer is not mounted.
NoViewer == transferId = "" /\ loads = {} /\ InitViewerCells

\* The viewer after its first render and the first run of the load effect.
MountViewer ==
  /\ transferId \in TransferIds
  /\ loads = {[id |-> transferId, cancelled |-> FALSE]}
  /\ InitViewerCells

\* Mutant: the per-file button does not look at the expired flag.
FileDisabledIgnoreExpiry(idx) == downloadingIndex = idx

\* Mutant: a missing expiry counts as already passed.
ExpiredAtNoGuard(expiresAt, t) == t > expiresAt

\* if (!data?.expiresAt) return false; return Date.now() > data.expiresAt;
ExpiredAt(expiresAt, t) ==
  IF expiresAt \in {Undefined, NoExpiry} THEN FALSE ELSE t > expiresAt

\* data?.expiresAt, the dependency of the memo.
DepOf(d) == IF d = NoData THEN Undefined ELSE d[1].expiresAt

\* useMemo(..., [data?.expiresAt]) on the render that follows setData(d):
\* the stored value is kept unless the dependency differs from the one it
\* was computed for; a new value is computed with the clock of that render.
Render(d) ==
  /\ expiredDep' = DepOf(d)
  /\ isExpired' = IF DepOf(d) # expiredDep
                  THEN ExpiredAt(DepOf(d), now)
                  ELSE isExpired

\* {!loading && !error && data && (...)}: the meta card and the file list.
ControlsShown == ~vLoading /\ vError = NoText /\ data # NoData

FileCount == IF data = NoData THEN 0 ELSE data[1].nfiles

\* disabled={isExpired || !data?.files?.length || downloadingAll}
ZipDisabled == isExpired \/ FileCount = 0 \/ downloadingAll

\* disabled={downloadingIndex === idx || isExpired}
FileDisabled(idx) == downloadingIndex = idx \/ isExpired

Tick ==
  /\ page \in {"viewer", "list"}
  /\ now < MaxTime
  /\ now' = now + 1
  /\ UNCHANGED <<page, uploadVars, viewerVars, listVars, appVars>>

\* Mutant: the cleanup of the load effect does not set cancelled.
RouteChangeNoCleanup ==
  /\ page = "viewer"
  /\ \E id \in TransferIds \ {transferId} :
       /\ transferId' = id
       /\ loads' = loads \cup {[id |-> id, cancelled |-> FALSE]}
  /\ vLoading' = TRUE
  /\ vError' = NoText
  /\ UNCHANGED <<data, downloadingIndex, downloadingAll, isExpired,
                 expiredDep, loadedAt, downloads, zip, zipAuth, now,
                 notViewer>>

\* The route parameter changes: the effect's cleanup cancels the running
\* load and the effect runs again up to its first await.
RouteChange ==
  /\ page = "viewer"
  /\ \E id \in TransferIds \ {transferId} :
       /\ transferId' = id
       /\ loads' = {[l EXCEPT !.cancelled = TRUE] : l \in loads}
                     \cup {[id |-> id, cancelled |-> FALSE]}
  /\ vLoading' = TRUE
  /\ vError' = NoText
  /\ UNCHANGED <<data, downloadingIndex, downloadingAll, isExpired,
                 expiredDep, loadedAt, downloads, zip, zipAuth, now,
                 notViewer>>

\* A run of the load effect resumes with the answer of the metadata fetch;
\* its setters are guarded by the run's cancelled flag.  handleDownload and
\* handleDownloadAllZip hold no such flag: their calls resume and call their
\* setters whether or not the viewer is still mounted (after an unmount the
\* cells stand for what the setters were last called with).
LoadResponse ==
  /\ \E l \in loads :
       /\ loads' = loads \ {l}
       /\ IF l.cancelled
          THEN UNCHANGED <<data, vLoading, vError, isExpired, expiredDep,
                           loadedAt>>
          ELSE /\ vLoading' = FALSE
               /\ \E r \in Responses :
                    IF r.rejected
                    THEN /\ vError' = Text("Failed to fetch")
                         /\ UNCHANGED <<data, isExpired, expiredDep, loadedAt>>
                    ELSE IF ~r.ok
                    THEN /\ vError' = <<"Failed to load transfer (", r.status,
                                        "): ", r.body>>
                         /\ UNCHANGED <<data, isExpired, expiredDep, loadedAt>>
                    ELSE \E d \in TransferRecords :
                           /\ data' = <<TransferResponse(l.id, d)>>
                           /\ Render(<<TransferResponse(l.id, d)>>)
                           /\ loadedAt' = now
                           /\ UNCHANGED vError
  /\ UNCHANGED <<transferId, downloadingIndex, downloadingAll, downloads, zip,
                 zipAuth, now, notViewer>>

\* handleDownload(idx) up to the fetch of the download link, from an
\* enabled, rendered per-file Download button.  The token only decides the
\* header of that request.
HandleDownload ==
  /\ page = "viewer" /\ ControlsShown
  /\ BagCardinality(downloads) < MaxDownloads
  /\ \E idx \in 0..(FileCount - 1) :
       /\ ~FileDisabled(idx)
       /\ downloadingIndex' = idx
       /\ downloads' = downloads (+)
            SetToBag({[idx |-> idx, pc |-> "link", auth |-> NoHeader]})
  /\ vError' = NoText
  /\ UNCHANGED <<transferId, data, vLoading, downloadingAll, isExpired,
                 expiredDep, loads, loadedAt, zip, zipAuth, now, notViewer>>

\* The pending calls without one call c.
Without(calls, c) == calls (-) SetToBag({c})

\* downloadBlobWithAuth: if (!token) throw new Error("You must be signed in
\* to download."); otherwise the bytes are fetched.
BlobOutcome(token) == IF token = "" THEN "throw" ELSE "fetch"

\* catch { setError(msg) } finally { setDownloadingIndex(null) } of the
\* pending handleDownload call c.
DownloadCatch(c, msg) ==
  /\ vError' = msg
  /\ downloadingIndex' = NoIndex
  /\ downloads' = Without(downloads, c)

\* The download-link endpoint answers a handleDownload call: it fails, or
\* carries no url, or downloadBlobWithAuth starts: without a token it
\* throws, with one it fetches the bytes from the link.
DownloadResponse ==
  /\ \E p \in BagToSet(downloads) :
       /\ p.pc = "link"
       /\ \E r \in Responses :
            IF r.rejected
            THEN DownloadCatch(p, Text("Failed to fetch"))
            ELSE IF ~r.ok
            THEN DownloadCatch(p, <<"Download link failed (", r.status, "): ",
                                    r.body>>)
            ELSE \E hasUrl \in BOOLEAN :
                   IF ~hasUrl
                   THEN DownloadCatch(p, Text("Missing download url."))
                          ELSE \E token \in TokenOutcomes :
                          IF BlobOutcome(token) = "throw"
                          THEN DownloadCatch(p,
                                 Text("You must be signed in to download."))
                          ELSE /\ downloads' = Without(downloads, p) (+)
                                    SetToBag({[p EXCEPT !.pc = "bytes",
                                                 !.auth = AuthHeader(token)]})
                               /\ UNCHANGED <<vError, downloadingIndex>>
  /\ UNCHANGED <<transferId, data, vLoading, downloadingAll, isExpired,
                 expiredDep, loads, loadedAt, zip, zipAuth, now, notViewer>>

\* The bytes arrive (the file is saved) or their fetch fails; finally
\* setDownloadingIndex(null).
BytesResponse ==
  /\ \E p \in BagToSet(downloads) :
       /\ p.pc = "bytes"
       /\ \E r \in Responses :
            /\ vError' = IF r.rejected THEN Text("Failed to fetch")
                         ELSE IF ~r.ok
                         THEN <<"Download failed (", r.status, "): ", r.body>>
                         ELSE vError
            /\ downloadingIndex' = NoIndex
            /\ downloads' = Without(downloads, p)
  /\ UNCHANGED <<transferId, data, vLoading, downloadingAll, isExpired,
                 expiredDep, loads, loadedAt, zip, zipAuth, now, notViewer>>

\* handleDownloadAllZip up to the fetch of the archive, from the enabled,
\* rendered "Download all (ZIP)" button: the request goes out with the
\* Authorization header when there is a token and without it otherwise.
HandleDownloadAllZip ==
  /\ page = "viewer" /\ ControlsShown /\ ~ZipDisabled
  /\ zip = "idle"
  /\ vError' = NoText
  /\ downloadingAll' = TRUE
  /\ zip' = "fetch"
  /\ \E token \in TokenOutcomes : zipAuth' = AuthHeader(token)
  /\ UNCHANGED <<transferId, data, vLoading, downloadingIndex, isExpired,
                 expiredDep, loads, loadedAt, downloads, now, notViewer>>

\* The archive fetch ends; finally arms setTimeout(..., 400).
ZipResponse ==
  /\ zip = "fetch"
  /\ \E r \in Responses :
       vError' = IF r.rejected THEN Text("Failed to fetch")
                 ELSE IF ~r.ok
                 THEN <<"ZIP download failed (", r.status, "): ", r.body>>
                 ELSE vError
  /\ zip' = "timer"
  /\ zipAuth' = NoHeader
  /\ UNCHANGED <<transferId, data, vLoading, downloadingIndex, downloadingAll,
                 isExpired, expiredDep, loads, loadedAt, downloads, now,
                 notViewer>>

\* The timer fires: setDownloadingAll(false).
ZipTimer ==
  /\ zip = "timer"
  /\ downloadingAll' = FALSE
  /\ zip' = "idle"
  /\ UNCHANGED <<transferId, data, vLoading, vError, downloadingIndex,
                 isExpired, expiredDep, loads, loadedAt, downloads, zipAuth,
                 now, notViewer>>

\* The "Back" link (to "/"): the viewer is unmounted, the cleanup of its
\* load effect sets cancelled, and the upload page is mounted.
LeaveViewer ==
  /\ page = "viewer"
  /\ page' = "upload"
  /\ location' = [path |-> "/", from |-> ""]
  /\ loads' = {[l EXCEPT !.cancelled = TRUE] : l \in loads}
  /\ UNCHANGED <<transferId, data, vLoading, vError, downloadingIndex,
                 downloadingAll, isExpired, expiredDep, loadedAt, downloads,
                 zip, zipAuth, now, uploadVars, listVars, clipboard,
                 authLoading, resolved, authVars>>

\* A mounted viewer keeps its route parameter: the application has no
\* client-side navigation to /t/:transferId (share links are opened with
\* window.open, in a new document).  RouteChange is the effect's answer to a
\* parameter change all the same, and SpecViewerNav lets it happen.
NextViewer ==
  \/ Tick \/ LoadResponse
  \/ HandleDownload \/ DownloadResponse \/ BytesResponse
  \/ HandleDownloadAllZip \/ ZipResponse \/ ZipTimer

SpecViewerNextNav == NextViewer \/ RouteChange

\* =========================================================== MyUploadsPage
\* Most records the my-transfers endpoint returns.
MaxRecords == 1

Users == {"", "u1"}

\* expiresAt as it arrives: absent, a number, a timestamp object with
\* toMillis(), or some other value without it (a string, a plain object).
RawExpiries ==
  {[kind |-> "none", ms |-> 0], [kind |-> "other", ms |-> 0]}
    \cup [kind : {"number", "timestamp"}, ms : ExpiryTimes]

\* The records of the endpoint: "" stands for an absent field.  The map in
\* normalized never combines the identifier fields, the share URL and the
\* expiry/status pair, so the records vary each with the others held fixed.
RawRecords ==
  [transferId : {"", "T1"}, id : {"", "X1"}, shareUrl : {""},
   expiresAt : {[kind |-> "none", ms |-> 0]}, status : {"ready"}]
    \cup
  [transferId : {"T1"}, id : {""}, shareUrl : {"https://s/T1"},
   expiresAt : {[kind |-> "none", ms |-> 0]}, status : {"ready"}]
    \cup
  [transferId : {"T1"}, id : {""}, shareUrl : {""},
   expiresAt : RawExpiries, status : {"READY", "draft"}]
    \cup
  [transferId : {"T1"}, id : {""}, shareUrl : {""},
   expiresAt : {[kind |-> "number", ms |-> 1]}, status : {""}]

RECURSIVE ListsUpTo(_, _)
ListsUpTo(S, n) ==
  IF n = 0 THEN {<< >>}
  ELSE LET shorter == ListsUpTo(S, n - 1)
       IN  shorter \cup {Append(q, x) : q \in shorter, x \in S}

RecordLists == ListsUpTo(RawRecords, MaxRecords)

\* String.prototype.toLowerCase on the status values in use.
Lower(str) == IF str = "READY" THEN "ready" ELSE str

\* typeof t.expiresAt === "number" ? t.expiresAt
\*   : t.expiresAt?.toMillis?.() ?? null        (0 stands for null)
ExpiresAtMs(e) ==
  IF e.kind = "number" THEN e.ms
  ELSE IF e.kind = "timestamp" THEN e.ms
  ELSE 0

\* Mutant: a missing expiry is read as the epoch and compared all the same.
ListExpiredNoGuard(ms, t) == ms < t

\* const isExpired = expiresAtMs ? expiresAtMs < now : false;
ListExpired(ms, t) == IF ms # 0 THEN ms < t ELSE FALSE

\* Mutant: the field id is preferred.
IdOfIdFirst(rec) == IF rec.id # "" THEN rec.id ELSE rec.transferId

\* const id = t.transferId || t.id;   ("" stands for undefined)
IdOf(rec) == IF rec.transferId # "" THEN rec.transferId ELSE rec.id

\* One step of normalized's map, with now = t.
Normalize(rec, t) ==
  LET id == IdOf(rec)
      expiresAtMs == ExpiresAtMs(rec.expiresAt)
      statusRaw == Lower(IF rec.status # "" THEN rec.status ELSE "draft")
      expired == ListExpired(expiresAtMs, t)
  IN  [_id |-> id,
       _shareUrl |-> IF rec.shareUrl # "" THEN Text(rec.shareUrl)
                     ELSE <<"origin", "/t/", id>>,
       _expiresAtMs |-> expiresAtMs,
       isExpired |-> expired,
       _status |-> IF expired THEN "expired"
                   ELSE IF statusRaw = "ready" THEN "ready"
                   ELSE "draft"]

\* The list as last rendered.
normalized == [j \in 1..Len(uploads) |-> Normalize(uploads[j], renderNow)]

\* The rows are rendered when the fetch has ended without error and there
\* is a record; key={t._id}.
RowsShown == ~lLoading /\ lError = NoText /\ Len(uploads) > 0
RowKey(j) == normalized[j]._id

InitListCells ==
  /\ uploads = << >>
  /\ lLoading = TRUE
  /\ lError = NoText

\* The list is not mounted.
NoList == user = "" /\ fetches = {} /\ renderNow = 0 /\ InitListCells

\* The list after its first render and the first run of the fetch effect.
MountList ==
  /\ user \in Users
  /\ fetches = {[user |-> user, cancelled |-> FALSE]}
  /\ renderNow = now
  /\ InitListCells

\* onAuthStateChanged delivers another identity: the context value and its
\* getIdToken are new, the effect's cleanup cancels the running fetch and the
\* effect runs again up to its first await.
AuthChange ==
  /\ page = "list"
  /\ \E u \in Users \ {user} :
       /\ user' = u
       /\ fetches' = {[f EXCEPT !.cancelled = TRUE] : f \in fetches}
                       \cup {[user |-> u, cancelled |-> FALSE]}
  /\ lLoading' = TRUE
  /\ lError' = NoText
  /\ renderNow' = now
  /\ UNCHANGED <<uploads, now, notList>>

\* A run of fetchUploads ends: without a token, with a failed fetch, or with
\* the transfers of the answer.
FetchResponse ==
  /\ page = "list"
  /\ \E f \in fetches :
       /\ fetches' = fetches \ {f}
       /\ IF f.cancelled
          THEN UNCHANGED <<uploads, lLoading, lError, renderNow>>
          ELSE /\ lLoading' = FALSE
               /\ renderNow' = now
               /\ IF f.user = ""
                  THEN lError' = Text("Not authenticated") /\ UNCHANGED uploads
                  ELSE \E r \in Responses :
                         IF r.rejected
                         THEN lError' = Text("Failed to fetch")
                                /\ UNCHANGED uploads
                         ELSE IF ~r.ok
                         THEN lError' = (IF r.body # ""
                                         THEN <<"HTTP ", r.status, " - ", r.body>>
                                         ELSE <<"HTTP ", r.status>>)
                                /\ UNCHANGED uploads
                         ELSE \E ts \in RecordLists :
                                uploads' = ts /\ UNCHANGED lError
  /\ UNCHANGED <<user, now, notList>>

\* The fallback of handleCopy: a textarea holding the text is appended and
\* selected, document.execCommand("copy") copies the selection.
ExecCopy(text) == text

\* handleCopy(t._shareUrl), from the "Copy link" button of row j.
HandleCopy(j) ==
  /\ page = "list" /\ RowsShown
  /\ j \in 1..Len(uploads)
  /\ \E api \in ClipboardApis :
       LET url == normalized[j]._shareUrl
           tried == WriteText(api, url, clipboard)
       IN  clipboard' = IF tried.caught THEN ExecCopy(url) ELSE tried.clip
  /\ UNCHANGED <<page, now, uploadVars, viewerVars, listVars, location,
                 authLoading, resolved, authVars>>

CopyRow == \E j \in 1..MaxRecords : HandleCopy(j)

\* The copy action is left to SpecCopy: nothing else reads the clipboard.
NextList == Tick \/ AuthChange \/ FetchResponse

\* ============================================== AuthProvider and routes
\* Paths of the router; "/t" stands for /t/:transferId.  The uploads list
\* is the view that needs an identity.
ProtectedPaths == {"/my-uploads"}
SignInPath == "/auth"
At(path) == [path |-> path, from |-> ""]

\* The view a route renders.
PageOf(path) ==
  IF path = "/" THEN "upload"
  ELSE IF path = "/my-uploads" THEN "list"
  ELSE IF path = "/t" THEN "viewer"
  ELSE "auth"

\* Mutant: the callback leaves loading set.
AuthCallbackStillLoading(u) == [user |-> u, loading |-> TRUE]

\* onAuthStateChanged(auth, (u) => { setUser(u); setLoading(false); })
AuthCallback(u) == [user |-> u, loading |-> FALSE]

\* The route guard's render: a placeholder while the AuthProvider is
\* loading, a redirect to the sign-in view without identity, the wrapped
\* view otherwise.
GuardView(loading, u) ==
  IF loading THEN "placeholder"
  ELSE IF u = "" THEN "redirect"
  ELSE "wrapped"

\* The uploads list is mounted for identity u / is unmounted.
ListMounted(u) ==
  /\ uploads' = << >> /\ lLoading' = TRUE /\ lError' = NoText
  /\ fetches' = {[user |-> u, cancelled |-> FALSE]}
  /\ renderNow' = now
ListUnmounted ==
  /\ uploads' = << >> /\ lLoading' = TRUE /\ lError' = NoText
  /\ fetches' = {}
  /\ renderNow' = 0

\* The render of the routes at path, for the AuthProvider's loading and u:
\* the sign-in view on its own path; on a protected path what the guard
\* decides, the redirect carrying the path in state.from.
RenderRoute(path, from, loading, u) ==
  LET view == GuardView(loading, u)
      shown == IF path = SignInPath THEN "auth"
               ELSE IF view = "placeholder" THEN "guard"
               ELSE IF view = "redirect" THEN "auth"
               ELSE PageOf(path)
  IN  /\ page' = shown
      /\ location' = IF path # SignInPath /\ view = "redirect"
                     THEN [path |-> SignInPath, from |-> path]
                     ELSE [path |-> path, from |-> from]
      /\ IF shown = "list" THEN ListMounted(u) ELSE ListUnmounted

\* The render of the routes at any path: "/" and "/t" are routes without a
\* guard and show their view whatever the identity.
RenderAt(path, from, loading, u) ==
  IF path \in ProtectedPaths \cup {SignInPath}
  THEN RenderRoute(path, from, loading, u)
  ELSE /\ page' = PageOf(path)
       /\ location' = [path |-> path, from |-> from]
       /\ ListUnmounted

\* The identity provider calls back with identity u ("" for none): the
\* first resolution, a sign-in or a sign-out.  The routes render again.
AuthStateChanged ==
  /\ \E u \in Users :
       /\ ~resolved \/ u # user
       /\ user' = AuthCallback(u).user
       /\ authLoading' = AuthCallback(u).loading
       /\ RenderAt(location.path, location.from,
                   AuthCallback(u).loading, AuthCallback(u).user)
  /\ resolved' = TRUE
  /\ UNCHANGED <<now, uploadVars, viewerVars, clipboard, authVars>>

\* AuthPage: const from = location?.state?.from ?? "/"; after a sign-in,
\* navigate(from, { replace: true }).
SignedInNavigate ==
  /\ page = "auth" /\ user # ""
  /\ RenderRoute(IF location.from # "" THEN location.from ELSE "/", "",
                 authLoading, user)
  /\ UNCHANGED <<now, user, authLoading, resolved, uploadVars, viewerVars,
                 clipboard, authVars>>

\* ------------------------------------------------------------- AuthPage
\* Most sign-in calls awaiting at once (no button of the page is disabled
\* while a call awaits).
MaxSignIns == 2

\* Values typed into the email and the password field.
Credentials == {"", " ", "x"}

\* e?.message of a rejected sign-in; "" stands for an error without one.
SignInErrors == {"", "Firebase: Error (auth/invalid-credential)."}

InitAuthCells ==
  /\ mode = "login"
  /\ email = ""
  /\ pass = ""
  /\ authStatus = NoText
  /\ signIns = EmptyBag

\* Mutant: the navigation state is not read.
FromOfHome(loc) == "/"

\* const from = location?.state?.from ?? "/";   ("" stands for no state)
FromOf(loc) == IF loc.from # "" THEN loc.from ELSE "/"

\* navigate(target, { replace: true }): the routes render at target; a view
\* already shown at that path stays mounted.
Navigate(target) ==
  IF location.path = target
  THEN /\ location' = [path |-> target, from |-> ""]
       /\ UNCHANGED <<page, uploads, lLoading, lError, fetches, renderNow>>
  ELSE RenderAt(target, "", authLoading, user)

\* The "Need an account? / Have an account?" button.
SetMode ==
  /\ page = "auth"
  /\ mode' = IF mode = "login" THEN "signup" ELSE "login"
  /\ UNCHANGED <<email, pass, authStatus, signIns, page, now, user,
                 uploadVars, viewerVars, uploads, lLoading, lError, renderNow,
                 fetches, clipboard, location, authLoading, resolved>>

\* The two inputs.
SetCredentials ==
  /\ page = "auth"
  /\ \E e \in Credentials, p \in Credentials :
       /\ <<e, p>> # <<email, pass>>
       /\ e = email \/ p = pass
       /\ email' = e /\ pass' = p
  /\ UNCHANGED <<mode, authStatus, signIns, page, now, user,
                 uploadVars, viewerVars, uploads, lLoading, lError, renderNow,
                 fetches, clipboard, location, authLoading, resolved>>

\* A sign-in call that awaits the identity provider: its kind and the from
\* of its closure.
SignInCall(kind) == [kind |-> kind, from |-> FromOf(location)]

\* handleSubmit up to its await: blank credentials end the call with a
\* status; otherwise signInWithEmailAndPassword (mode "login") or
\* createUserWithEmailAndPassword (mode "signup") is called.
HandleSubmit ==
  /\ page = "auth"
  /\ IF Trim(email) = "" \/ Trim(pass) = ""
     THEN /\ authStatus' = Text("Insert email + password")
          /\ UNCHANGED signIns
     ELSE /\ BagCardinality(signIns) < MaxSignIns
          /\ authStatus' = NoText
          /\ signIns' = signIns (+) SetToBag({SignInCall(mode)})
  /\ UNCHANGED <<mode, email, pass, page, now, user,
                 uploadVars, viewerVars, uploads, lLoading, lError, renderNow,
                 fetches, clipboard, location, authLoading, resolved>>

\* handleGoogleSignIn up to its await: signInWithPopup is called.
HandleGoogleSignIn ==
  /\ page = "auth"
  /\ BagCardinality(signIns) < MaxSignIns
  /\ authStatus' = NoText
  /\ signIns' = signIns (+) SetToBag({SignInCall("google")})
  /\ UNCHANGED <<mode, email, pass, page, now, user,
                 uploadVars, viewerVars, uploads, lLoading, lError, renderNow,
                 fetches, clipboard, location, authLoading, resolved>>

\* catch (e) { setStatus(e?.message ?? fallback) }
SignInFailure(kind, message) ==
  IF message # "" THEN Text(message)
  ELSE IF kind = "google" THEN Text("Google sign-in failed")
  ELSE Text("Auth failed")

\* A sign-in call resumes.  The identity provider rejects it, or accepts it:
\* its promise then resolves once onAuthStateChanged has delivered the
\* identity.  A login and a federated sign-in navigate to the from of their
\* closure; a sign-up only reports.
SignInResponse ==
  /\ \E c \in BagToSet(signIns) :
       /\ signIns' = Without(signIns, c)
       /\ \/ /\ \E message \in SignInErrors :
                    authStatus' = SignInFailure(c.kind, message)
             /\ UNCHANGED <<page, location, uploads, lLoading, lError,
                            fetches, renderNow>>
          \/ /\ user # ""
             /\ IF c.kind = "signup"
                THEN /\ authStatus' = Text("Account created")
                     /\ UNCHANGED <<page, location, uploads, lLoading, lError,
                                    fetches, renderNow>>
                ELSE /\ authStatus' = IF c.kind = "google"
                                      THEN Text("Logged in with Google")
                                      ELSE Text("Logged in")
                     /\ Navigate(c.from)
  /\ UNCHANGED <<mode, email, pass, now, user, uploadVars, viewerVars,
                 clipboard, authLoading, resolved>>

\* The sign-in view is open, reached by the guard's redirect from a
\* protected path or directly.
InitAuth ==
  /\ page = "auth" /\ now = 1
  /\ location \in {[path |-> SignInPath, from |-> f] :
                     f \in {""} \cup ProtectedPaths}
  /\ authLoading = FALSE /\ resolved = TRUE
  /\ clipboard = NoText
  /\ InitUploadVars /\ NoViewer /\ NoList /\ InitAuthCells

NextAuth ==
  \/ SetMode \/ SetCredentials
  \/ HandleSubmit \/ HandleGoogleSignIn \/ SignInResponse
  \/ AuthStateChanged

\* A protected path is requested: the AuthProvider has not resolved yet and
\* the guard shows its placeholder.
InitGuard ==
  /\ page = "guard" /\ now = 1
  /\ location \in {At(path) : path \in ProtectedPaths}
  /\ authLoading = TRUE /\ resolved = FALSE
  /\ clipboard = NoText
  /\ InitUploadVars /\ NoViewer /\ NoList /\ InitAuthCells

NextGuard ==
  \/ AuthStateChanged \/ SignedInNavigate
  \/ Tick \/ FetchResponse

\* ========================================================== specifications
\* A page opened with the AuthProvider resolved.
InitApp(path) ==
  /\ clipboard = NoText
  /\ location = At(path)
  /\ authLoading = FALSE /\ resolved = TRUE
  /\ InitAuthCells

InitUpload ==
  /\ page = "upload" /\ now = 1
  /\ InitUploadVars /\ NoViewer /\ NoList /\ InitApp("/")

InitViewer ==
  /\ page = "viewer" /\ now = 1
  /\ InitUploadVars /\ MountViewer /\ NoList /\ InitApp("/t")

InitList ==
  /\ page = "list" /\ now = 1
  /\ InitUploadVars /\ NoViewer /\ MountList /\ InitApp("/my-uploads")

\* The upload page.
SpecUpload == InitUpload /\ [][NextUpload]_vars
\* The transfer viewer.
SpecViewer == InitViewer /\ [][NextViewer]_vars
\* The transfer viewer under changes of its route parameter.
SpecViewerNav == InitViewer /\ [][SpecViewerNextNav]_vars
\* The uploads list.
SpecList == InitList /\ [][NextList]_vars
\* The two pages that derive an expired flag: either one is open.
SpecViews == (InitViewer \/ InitList) /\ [][NextViewer \/ NextList]_vars

\* The upload page, handleSendEmail also called past its button.
SpecUploadCalls == InitUpload /\ [][NextUpload \/ CallSendEmail]_vars

\* The upload page, every request of an upload attempt answered in the end
\* (it resolves or rejects).
SpecUploadLive ==
  /\ InitUpload /\ [][NextUpload]_vars
  /\ WF_vars(InitResponse) /\ WF_vars(PutResponse)
  /\ WF_vars(CompleteResponse)

\* The two load effects under restarts: the viewer with changes of its
\* route parameter, the uploads list with changes of the identity.
SpecRestarts ==
  (InitViewer \/ InitList)
    /\ [][Tick \/ LoadResponse \/ RouteChange \/ AuthChange \/ FetchResponse]_vars

\* The upload page and what its pending calls do once it is unmounted.
SpecUploadLeave == InitUpload /\ [][NextUpload \/ LeaveUpload]_vars
\* The viewer and what its pending calls do once it is unmounted.
SpecViewerLeave == InitViewer /\ [][NextViewer \/ LeaveViewer]_vars

\* A protected route, from the request of its path on.
SpecGuard == InitGuard /\ [][NextGuard]_vars

\* The sign-in view, from its opening on.
SpecAuth == InitAuth /\ [][NextAuth]_vars

\* The two pages with a copy action, the copy actions included.
SpecCopy ==
  (InitUpload \/ InitList)
    /\ [][NextUpload \/ HandleCopyLink \/ CopyHintTimer
            \/ NextList \/ CopyRow]_vars

\* The upload page or the transfer viewer is open: the two pages whose
\* actions (upload, email, per-file download, bulk download) can fail.
SpecUploadOrViewer ==
  (InitUpload \/ InitViewer) /\ [][NextUpload \/ NextViewer]_vars

\* ================================================== properties: upload
UploadReqs == {q \in inflight : q.op \in {"init", "put", "complete"}}
IsEv(e, op, res) == e.op = op /\ e.res = res
LastEv == log[Len(log)]
Phase ==
  IF isFinalizing THEN "finalizing"
  ELSE IF isUploading THEN "uploading"
  ELSE "idle"

\* C1: within one upload attempt, once the PUT of a file has come back with
\* a non-success status, the attempt sends nothing more: the failed answer
\* is the last entry of the attempt's request history, nothing of the attempt
\* is on the wire, and the handler has ended.
C1_NothingAfterFailedPut ==
  \A j \in 1..Len(log) :
    IsEv(log[j], "put", "fail") =>
      /\ j = Len(log)
      /\ UploadReqs = {}
      /\ up.pc = "idle"

\* A first PUT failed while a later file and the completion were still due.
C1_Witness ==
  /\ Len(submitted) >= 2
  /\ Len(log) = 4
  /\ IsEv(log[2], "init", "ok") /\ log[2].idx >= 2
  /\ IsEv(LastEv, "put", "fail") /\ LastEv.idx = 1

\* C2 (as claimed): a completion request is sent only after a PUT has come
\* back successful for every file submitted in the initialization request,
\* whatever number of upload slots the initialization response carries.
C2_CompleteOnlyAfterAllPuts ==
  \A j \in 1..Len(log) :
    IsEv(log[j], "complete", "sent") =>
      \A f \in 1..Len(initPayload) :
        \E h \in 1..(j - 1) : IsEv(log[h], "put", "ok") /\ log[h].idx = f

\* C3 (as claimed): the init request lists the N selected files in order,
\* entry i carrying name, content type and size of the i-th selected file.
C3_PayloadIsFileTriple ==
  initPayload # << >> =>
    /\ Len(initPayload) = Len(submitted)
    /\ \A j \in 1..Len(submitted) :
         /\ initPayload[j].name = submitted[j].file.name
         /\ initPayload[j].type = submitted[j].file.type
         /\ initPayload[j].size = submitted[j].file.size

\* C3 (amended): the init request lists the N >= 1 files the page holds when
\* Upload is invoked, in selection order; entry i carries the name and size
\* of the i-th file and its content type, with "application/octet-stream"
\* in place of an empty type.
C3_PayloadMatchesSelection ==
  /\ isUploading => submitted = files /\ initPayload # << >>
  /\ initPayload # << >> =>
       /\ Len(submitted) >= 1
       /\ Len(initPayload) = Len(submitted)
       /\ \A j \in 1..Len(submitted) :
            /\ initPayload[j].name = submitted[j].file.name
            /\ initPayload[j].size = submitted[j].file.size
            /\ initPayload[j].type =
                 IF submitted[j].file.type = ""
                 THEN "application/octet-stream"
                 ELSE submitted[j].file.type

\* Two files were submitted, one with a type and one without.
C3_Witness ==
  /\ isUploading
  /\ Len(initPayload) = 2
  /\ \E a, b \in 1..2 :
       submitted[a].file.type = "" /\ submitted[b].file.type # ""

\* C4: the uploads of one transfer are strictly sequential: at most one PUT
\* is on the wire, the first PUT follows the successful init answer, the PUT
\* of file i+1 directly follows the successful answer to the PUT of file i,
\* and so PUTs go out in selection order.
C4_PutsSequential ==
  /\ Cardinality({q \in inflight : q.op = "put"}) <= 1
  /\ \A j \in 1..Len(log) :
       IsEv(log[j], "put", "sent") =>
         /\ j > 1
         /\ log[j].idx <= Len(submitted)
         /\ IF log[j].idx = 1
            THEN IsEv(log[j - 1], "init", "ok")
            ELSE /\ IsEv(log[j - 1], "put", "ok")
                 /\ log[j - 1].idx = log[j].idx - 1
  /\ \A q \in inflight :
       q.op = "put" => IsEv(LastEv, "put", "sent") /\ LastEv.idx = q.idx

\* The PUT of the second file is on the wire.
C4_Witness ==
  /\ Req("put", 2) \in inflight
  /\ IsEv(LastEv, "put", "sent")

\* C5: after addFiles (non-null list) or removeFile the share URL is empty,
\* whatever it was, also when every added file was a duplicate.
C5_ShareUrlCleared ==
  last.op \in {"addFiles", "removeFile"} => shareUrl = NoText

\* A share URL was shown and addFiles added nothing.
C5_Witness ==
  last.op = "addFiles" /\ last.added = 0 /\ last.hadShare

\* C6 (as claimed): after a file is added or removed while idle, status text
\* and error text are both empty.
C6_StatusAndErrorCleared ==
  last.op \in {"addFiles", "removeFile"} => status = NoText /\ error = NoText

\* C9: the phase of an attempt moves idle -> uploading -> finalizing -> idle
\* only.  Finalizing is entered from uploading alone; a share URL appears
\* only on leaving finalizing; uploading is left towards idle only with an
\* error; finalizing is left with exactly one of share URL and error; and
\* once the handler has ended neither flag is set.
C9_PhaseStep ==
  /\ <<Phase, Phase'>> \in
       { <<"idle", "idle">>, <<"idle", "uploading">>,
         <<"uploading", "uploading">>, <<"uploading", "finalizing">>,
         <<"uploading", "idle">>, <<"finalizing", "finalizing">>,
         <<"finalizing", "idle">> }
  /\ (Phase = "uploading" /\ Phase' = "idle") =>
       error' # NoText /\ shareUrl' = NoText
  /\ (Phase = "finalizing" /\ Phase' = "idle") =>
       (error' # NoText) # (shareUrl' # NoText)
  /\ (shareUrl = NoText /\ shareUrl' # NoText) =>
       Phase = "finalizing" /\ Phase' = "idle"
  /\ up'.pc = "idle" => ~isUploading' /\ ~isFinalizing'
  /\ isFinalizing' => isUploading'

C9_PhaseOrder == [][C9_PhaseStep]_vars

\* An attempt went through finalizing and ended with a share URL.
C9_Witness ==
  /\ shareUrl # NoText /\ Phase = "idle"
  /\ Len(log) > 0 /\ IsEv(LastEv, "complete", "ok")

\* C10: when the init request comes back with a non-success status, the
\* attempt ends there: the error text holds the status and the body, no PUT
\* and no completion request was or is sent, and the share URL is empty.
C10_InitFailureAborts ==
  \A j \in 1..Len(log) :
    IsEv(log[j], "init", "fail") =>
      /\ j = Len(log) /\ j = 2
      /\ UploadReqs = {}
      /\ up.pc = "idle" /\ ~isUploading /\ ~isFinalizing
      /\ Contains(error, log[j].status)
      /\ Contains(error, log[j].body)
      /\ shareUrl = NoText

\* The init request of an attempt was answered with status 403.
C10_Witness ==
  /\ Len(log) = 2
  /\ IsEv(LastEv, "init", "fail") /\ LastEv.status = "403"
  /\ Len(submitted) >= 1

\* The file names of the submitted selection.
SubmittedNames == {submitted[j].file.name : j \in 1..Len(submitted)}

\* C11: when the PUT of the i-th file has come back with HTTP status s, the
\* error text the attempt ends with holds the name of the i-th file, the
\* name of no file of the selection named otherwise, and s.
C11_PutErrorNamesFile ==
  (Len(log) > 0 /\ IsEv(LastEv, "put", "fail")) =>
    /\ up.pc = "idle" /\ ~isUploading
    /\ Contains(error, submitted[LastEv.idx].file.name)
    /\ \A n \in SubmittedNames \ {submitted[LastEv.idx].file.name} :
         ~Contains(error, n)
    /\ Contains(error, LastEv.status)

\* The PUT of the second of two differently named files failed with 500.
C11_Witness ==
  /\ Len(submitted) = 2 /\ Len(log) > 0
  /\ IsEv(LastEv, "put", "fail") /\ LastEv.idx = 2 /\ LastEv.status = "500"
  /\ submitted[1].file.name # submitted[2].file.name

EmailSent == Req("email", 0) \notin inflight /\ Req("email", 0) \in inflight'

\* C13: a step sends the email request only with a share URL held and a
\* recipient that is not blank; and a call of handleSendEmail without share
\* URL or with a blank recipient sends nothing and ends with an email
\* status text.
C13_EmailStep ==
  /\ EmailSent => shareUrl # NoText /\ emailTo \notin {"", " "}
  /\ ((HandleSendEmail \/ CallSendEmail)
        /\ (shareUrl = NoText \/ emailTo \in {"", " "})) =>
       /\ ~EmailSent /\ inflight' = inflight
       /\ ~isSendingEmail'
       /\ emailStatus' # NoText

Loaded == data # NoData
ZipUsable == ControlsShown /\ ~ZipDisabled
FileUsable(idx) == ControlsShown /\ ~FileDisabled(idx)

\* C16: for every record of the list that carries transferId, id or both,
\* the normalized record has one identifier _id: transferId when present,
\* otherwise id; the row's key is that identifier, and so is the last part
\* of the share URL synthesized when the record has none.
C16_OneIdentifier ==
  \A j \in 1..Len(uploads) :
    LET rec == uploads[j]
        n == normalized[j]
    IN  (rec.transferId # "" \/ rec.id # "") =>
          /\ n._id # ""
          /\ n._id = (IF rec.transferId # "" THEN rec.transferId ELSE rec.id)
          /\ RowKey(j) = n._id
          /\ rec.shareUrl = "" =>
               Len(n._shareUrl) = 3 /\ n._shareUrl[3] = n._id

\* A row is shown for a record that carries both fields and no share URL.
C16_Witness ==
  /\ page = "list" /\ RowsShown
  /\ \E j \in 1..Len(uploads) :
       /\ uploads[j].transferId # "" /\ uploads[j].id # ""
       /\ uploads[j].shareUrl = ""

\* C17: on a protected route the wrapped view is not rendered before the
\* identity provider has resolved; once it has resolved with no identity
\* the sign-in view is shown, and the redirect that leads there carries the
\* requested path, to which the sign-in returns; resolved with an identity,
\* a protected path shows its wrapped view.
C17_GuardStep ==
  /\ ~resolved => page = "guard"
  /\ ~resolved' => page' = "guard"
  /\ (resolved' /\ user' = "") =>
       page' = "auth" /\ location'.path = SignInPath
  /\ (page # "auth" /\ page' = "auth") =>
       location.path \in ProtectedPaths /\ location'.from = location.path
  /\ (page = "auth" /\ page' # "auth") =>
       location'.path = location.from /\ page' = PageOf(location.from)
  /\ (resolved' /\ user' # "" /\ location'.path \in ProtectedPaths) =>
       page' = PageOf(location'.path)

C17_ProtectedRoute == [][C17_GuardStep]_vars

\* The visitor without identity was sent to the sign-in view from the
\* uploads list's path.
C17_Witness ==
  /\ page = "auth" /\ resolved /\ user = ""
  /\ location = [path |-> SignInPath, from |-> "/my-uploads"]

\* C7: when the viewer has loaded a transfer whose expiry timestamp was
\* already earlier than the clock at loading, the expired flag is true and
\* neither the ZIP button nor any per-file button can be used, whatever the
\* backend's status.
C7_ExpiredAtLoadDisables ==
  (Loaded /\ data[1].expiresAt # NoExpiry /\ data[1].expiresAt < loadedAt) =>
    /\ isExpired
    /\ \A st \in BackendStatuses :
         data[1].status = st =>
           /\ ZipDisabled /\ ~ZipUsable
           /\ \A idx \in 0..(FileCount - 1) :
                FileDisabled(idx) /\ ~FileUsable(idx)

\* An expired transfer with files, reported "ready", is on display.
C7_Witness ==
  /\ page = "viewer" /\ ControlsShown
  /\ data[1].expiresAt # NoExpiry /\ data[1].expiresAt < loadedAt
  /\ data[1].status = "ready" /\ data[1].nfiles >= 1
  /\ downloadingIndex = NoIndex /\ ~downloadingAll

\* C8: a record without expiry timestamp is never expired, at any clock: the
\* viewer's flag is false, and the list derives neither an expired flag nor
\* the status "expired" for it.
C8_NoExpiryNeverExpired ==
  /\ (Loaded /\ data[1].expiresAt = NoExpiry) => ~isExpired
  /\ \A j \in 1..Len(uploads) :
       uploads[j].expiresAt.kind = "none" =>
         /\ ~normalized[j].isExpired
         /\ normalized[j]._status # "expired"
         /\ \A t \in 1..MaxTime :
              /\ ~Normalize(uploads[j], t).isExpired
              /\ Normalize(uploads[j], t)._status # "expired"

\* The viewer shows a transfer without expiry and the clock has moved on.
C8_Witness ==
  /\ page = "viewer" /\ ControlsShown
  /\ data[1].expiresAt = NoExpiry
  /\ now > loadedAt

\* The list shows a record without expiry and the clock has moved on.
C8_WitnessList ==
  /\ page = "list" /\ ~lLoading
  /\ \E j \in 1..Len(uploads) : uploads[j].expiresAt.kind = "none"
  /\ now > renderNow

\* The first token of a text ("" for the empty text).
First(text) == IF text = NoText THEN "" ELSE text[1]

FileFailures ==
  {"Download link failed (", "Download failed (", "Missing download url.",
   "You must be signed in to download."}

\* C12 (as claimed): once a failed action has reported its failure and has
\* ended, the control that starts the same action is on the page and
\* enabled: the Upload button after a failed upload, the Send button after
\* a failed email (the recipient still filled in), a per-file Download
\* button after a failed per-file download, the ZIP button after a failed
\* bulk download (the transfer not expired, nothing else in progress).
C12_RetryAvailable ==
  /\ (page = "upload" /\ up.pc = "idle" /\ last.op = "handleUpload"
        /\ error # NoText) => UploadEnabled
  /\ (page = "upload" /\ ~isSendingEmail /\ Trim(emailTo) # ""
        /\ First(emailStatus) \in {"Email failed (", "Failed to fetch"})
       => SendEnabled
  /\ (page = "viewer" /\ First(vError) \in FileFailures
        /\ downloads = EmptyBag /\ zip = "idle" /\ ~isExpired)
       => \E idx \in 0..(FileCount - 1) : FileUsable(idx)
  /\ (page = "viewer" /\ First(vError) = "ZIP download failed ("
        /\ downloads = EmptyBag /\ zip = "idle" /\ ~isExpired)
       => ZipUsable

\* C14 (as claimed): every request for bytes on the wire, of one file or of
\* the archive, carries an Authorization header with a bearer token; none
\* is on the wire without one.
C14_BytesCarryBearer ==
  /\ \A c \in BagToSet(downloads) :
       c.pc = "bytes" => Len(c.auth) = 2 /\ c.auth[1] = "Bearer "
                                        /\ c.auth[2] # ""
  /\ zip = "fetch" => Len(zipAuth) = 2 /\ zipAuth[1] = "Bearer "
                                       /\ zipAuth[2] # ""

\* C20 (as claimed): whenever the viewer shows a loaded transfer and the
\* clock is past its expiry timestamp, the ZIP button and every per-file
\* button are disabled, also when the expiry passed after loading.
C20_ExpiredNowDisables ==
  (page = "viewer" /\ ControlsShown /\ data[1].expiresAt # NoExpiry
     /\ now > data[1].expiresAt) =>
    /\ ZipDisabled
    /\ \A idx \in 0..(FileCount - 1) : FileDisabled(idx)

\* C15 (as claimed): a copy action leaves exactly the share URL on the
\* clipboard, whether navigator.clipboard writes, rejects or is missing: on
\* the upload page the URL of the share card, on the uploads list the URL
\* of the row.
C15_CopyStep ==
  /\ HandleCopyLink => clipboard' = shareUrl /\ clipboard' # NoText
  /\ \A j \in 1..Len(uploads) :
       HandleCopy(j) => clipboard' = normalized[j]._shareUrl

C15_CopyPutsUrl == [][C15_CopyStep]_vars

\* C18 (as claimed): once the viewer is unmounted, no step updates a cell of
\* its state: not the metadata load, not a per-file download, not the bulk
\* download.
C18_ViewerStep ==
  page # "viewer" =>
    UNCHANGED <<data, vLoading, vError, downloadingIndex, downloadingAll>>

C18_NoUpdateAfterLeavingViewer == [][C18_ViewerStep]_vars

\* C19 (as claimed): once the upload page is unmounted, no step of an upload
\* attempt or an email send updates status, error, progress, share URL, the
\* busy flags or the email status.
C19_UploadStep ==
  page # "upload" =>
    UNCHANGED <<status, error, uploadedCount, shareUrl, isUploading,
                isFinalizing, isSendingEmail, emailStatus>>

C19_NoUpdateAfterLeavingUpload == [][C19_UploadStep]_vars

EmailAnswered == Req("email", 0) \in inflight /\ Req("email", 0) \notin inflight'

\* C21: a step of an email send (the click on Send, the request going out,
\* its answer arriving, successful or not) leaves the share URL, the
\* selection, the status text and the progress counter as they were and
\* sends no init, PUT or completion request; and when the send has failed,
\* the Send button is enabled again for the same share URL.
C21_EmailStep ==
  /\ (HandleSendEmail \/ EmailSent \/ EmailAnswered) =>
       /\ UNCHANGED <<shareUrl, files, status, uploadedCount>>
       /\ UploadReqs' = UploadReqs
       /\ log' = log
  /\ (EmailAnswered /\ emailStatus' # Text("Email trimis!")) =>
       SendEnabled' /\ shareUrl' # NoText

C21_EmailLeavesUpload == [][C21_EmailStep]_vars

\* An email send failed after a completed upload: the upload's results are
\* on display and the Send button is enabled.
C21_Witness ==
  /\ First(emailStatus) = "Email failed ("
  /\ shareUrl # NoText /\ SendEnabled
  /\ status = Text("Upload complete. Share link generated!")
  /\ uploadedCount >= 1 /\ files # << >>

\* C22: for every record of the list and at every clock value t of the
\* render, the derived status is one of "expired", "ready", "draft":
\* "expired" exactly when the record carries an expiry timestamp (a number,
\* or an object with toMillis()) that is earlier than t, whatever the
\* backend's status; otherwise "ready" exactly when the backend's status is
\* ready; otherwise "draft".  The same timestamp gives the same status in
\* either form, and the rendered list holds the status derived for the clock
\* of its render.
C22_DerivedStatus ==
  \A j \in 1..Len(uploads) :
    /\ normalized[j]._status = Normalize(uploads[j], renderNow)._status
    /\ \A t \in 1..MaxTime :
         LET rec == uploads[j]
             n == Normalize(rec, t)
             hasTime == rec.expiresAt.kind \in {"number", "timestamp"}
             past == hasTime /\ rec.expiresAt.ms < t
             ready == rec.status \in {"ready", "READY"}
         IN  /\ n._status \in {"expired", "ready", "draft"}
             /\ (n._status = "expired") <=> past
             /\ (n._status = "ready") <=> (~past /\ ready)
             /\ (n._status = "draft") <=> (~past /\ ~ready)
             /\ hasTime =>
                  \A k \in {"number", "timestamp"} :
                    Normalize([rec EXCEPT !.expiresAt.kind = k], t)._status
                      = n._status

\* A row shows "expired" for a record the backend reports ready, its expiry
\* a timestamp object earlier than the render's clock.
C22_Witness ==
  /\ page = "list" /\ RowsShown
  /\ \E j \in 1..Len(uploads) :
       /\ uploads[j].expiresAt.kind = "timestamp"
       /\ uploads[j].expiresAt.ms < renderNow
       /\ uploads[j].status = "READY"
       /\ normalized[j]._status = "expired"

\* ================================================ properties: sign-in
LoggedIn == {Text("Logged in"), Text("Logged in with Google")}

\* C23: a sign-in call is started with the from of the navigation state
\* ("/" when there is none) and starts without navigating; when a login or
\* a federated sign-in succeeds, the location becomes that path; when a
\* sign-in fails, or handleSubmit finds the email or the password blank,
\* location and view stay as they are and the status text is set.
C23_SignInStep ==
  /\ \A c \in BagToSet(signIns') :
       signIns' = signIns (+) SetToBag({c}) =>
         /\ c.from = (IF location.from # "" THEN location.from ELSE "/")
         /\ UNCHANGED <<location, page>>
  /\ \A c \in BagToSet(signIns) :
       signIns' = Without(signIns, c) =>
         /\ authStatus' # NoText
         /\ authStatus' \in LoggedIn =>
              /\ c.kind \in {"login", "google"}
              /\ location' = [path |-> c.from, from |-> ""]
         /\ (c.kind \in {"login", "google"} /\ location' # location) =>
              authStatus' \in LoggedIn
         /\ authStatus' \notin LoggedIn => UNCHANGED <<location, page>>
  /\ (HandleSubmit /\ (email \in {"", " "} \/ pass \in {"", " "})) =>
       /\ UNCHANGED <<location, page, signIns>>
       /\ authStatus' = Text("Insert email + password")

C23_SignInNavigates == [][C23_SignInStep]_vars

\* A sign-in started on the view the guard redirected to has succeeded: the
\* location is the protected path that was asked for.
C23_Witness ==
  /\ authStatus \in LoggedIn
  /\ location = [path |-> "/my-uploads", from |-> ""]
  /\ page = "list" /\ user # ""

\* C24 (as claimed): while a handleDownload call for file index i awaits,
\* the Download button of index i cannot be used, whatever downloads of
\* other files start or end meanwhile.
C24_InFlightStaysDisabled ==
  page = "viewer" =>
    \A c \in BagToSet(downloads) : ~FileUsable(c.idx)

\* C25: whenever the share URL is not empty (the share card is displayed),
\* no upload attempt is running, the error text is empty, and the selection
\* is the list of files the attempt that produced the URL submitted.
C25_ShareUrlMatchesSelection ==
  shareUrl # NoText =>
    /\ ~isUploading /\ ~isFinalizing /\ up.pc = "idle"
    /\ UploadReqs = {}
    /\ error = NoText
    /\ files = submitted /\ files # << >>
    /\ Len(log) > 0 /\ IsEv(LastEv, "complete", "ok")

\* The share card is displayed for two files and an email about it has
\* been sent.
C25_Witness ==
  /\ page = "upload" /\ shareUrl # NoText
  /\ Len(files) = 2 /\ files = submitted
  /\ emailStatus = Text("Email trimis!")

UploadInFlight == up.pc # "idle" \/ UploadReqs # {}
EmailInFlight == Req("email", 0) \in inflight
UploadStarted == Req("init", 0) \notin inflight /\ Req("init", 0) \in inflight'

\* C26: an upload attempt starts only while no attempt and no email request
\* is in flight; an email request is sent only while no attempt and no
\* email request is in flight; the two are never in flight together; while
\* either is, the Upload button is disabled and no step (a drop, Remove,
\* Clear all, the picker) changes the selection.
C26_BusyStep ==
  /\ UploadStarted => ~UploadInFlight /\ ~EmailInFlight
  /\ EmailSent => ~UploadInFlight /\ ~EmailInFlight
  /\ ~(UploadInFlight' /\ EmailInFlight')
  /\ (UploadInFlight' \/ EmailInFlight') => ~UploadEnabled' /\ ~SendEnabled'
  /\ (UploadInFlight \/ EmailInFlight) => files' = files

C26_OneOperationAtATime == [][C26_BusyStep]_vars

\* An email request is in flight for a transfer of two files.
C26_Witness ==
  /\ page = "upload" /\ EmailInFlight /\ isSendingEmail
  /\ Len(files) = 2 /\ shareUrl # NoText

\* C27: every upload attempt that has started ends, and the step that ends
\* it leaves isUploading and isFinalizing false and exactly one of share
\* URL and error text set.
C27_EndStep ==
  (up.pc # "idle" /\ up'.pc = "idle") =>
    /\ ~isUploading' /\ ~isFinalizing'
    /\ (shareUrl' # NoText) # (error' # NoText)

C27_AttemptEnds ==
  /\ [][C27_EndStep]_vars
  /\ (up.pc # "idle") ~> (up.pc = "idle" /\ ~isUploading /\ ~isFinalizing)

\* An attempt of two files has ended with a failed completion request.
C27_Witness ==
  /\ up.pc = "idle" /\ ~isUploading /\ ~isFinalizing
  /\ Len(submitted) = 2 /\ Len(log) > 0
  /\ IsEv(LastEv, "complete", "fail")
  /\ error # NoText /\ shareUrl = NoText

\* C28: a run of a load effect that was cancelled by a restart changes
\* nothing when its response arrives; the run whose response is applied is
\* the one started last (the only one not cancelled, started for the
\* current route parameter or identity) and it ends loading; data changes
\* only with such a response; and loading is true exactly while the run
\* started last awaits, so it is false once all responses have arrived.
C28_LoadStep ==
  /\ \A l \in loads :
       loads' = loads \ {l} =>
         IF l.cancelled
         THEN UNCHANGED <<data, vLoading, vError, isExpired>>
         ELSE /\ l.id = transferId
              /\ \A o \in loads \ {l} : o.cancelled
              /\ ~vLoading'
              /\ \/ vError' # NoText /\ data' = data
                 \/ /\ vError' = vError
                    /\ data' # NoData /\ data'[1].transferId = transferId
  /\ \A f \in fetches :
       fetches' = fetches \ {f} =>
         IF f.cancelled
         THEN UNCHANGED <<uploads, lLoading, lError>>
         ELSE /\ f.user = user
              /\ \A o \in fetches \ {f} : o.cancelled
              /\ ~lLoading'
              /\ f.user = "" => lError' # NoText /\ uploads' = uploads
  /\ data' # data => \E l \in loads : ~l.cancelled /\ loads' = loads \ {l}
  /\ uploads' # uploads =>
       \E f \in fetches : ~f.cancelled /\ fetches' = fetches \ {f}
  /\ page' = "viewer" => (vLoading' <=> \E l \in loads' : ~l.cancelled)
  /\ page' = "list" => (lLoading' <=> \E f \in fetches' : ~f.cancelled)
  /\ (page' = "viewer" /\ ~vLoading' /\ vError' = NoText) =>
       data' # NoData /\ data'[1].transferId = transferId'

PutsSucceeded == Cardinality({j \in 1..Len(log) : IsEv(log[j], "put", "ok")})

\* C29: while an upload attempt is in progress, the progress counter is the
\* number of PUTs of this attempt that have succeeded, it is at most the
\* number of selected files, the percentage on display is within 0..100,
\* and the counter is 0 when the attempt has just started.
C29_ProgressCounts ==
  (isUploading \/ isFinalizing) =>
    /\ uploadedCount = PutsSucceeded
    /\ uploadedCount <= Len(files)
    /\ ProgressShown /\ progressPct \in 0..100
    /\ up.pc = "awaitInit" => uploadedCount = 0 /\ progressPct = 0

\* Of two selected files the first PUT has succeeded and the second is on
\* the wire: the bar shows 50%.
C29_Witness ==
  /\ isUploading /\ up.pc = "awaitPut" /\ up.i = 2
  /\ Len(files) = 2 /\ uploadedCount = 1 /\ progressPct = 50

\* C30 (as claimed): the selection never holds two entries with the same
\* file name and the same byte size, and its entries carry distinct
\* identifiers.
C30_NoDuplicateEntries ==
  \A a, b \in 1..Len(files) :
    a # b =>
      /\ FileKey(files[a].file) # FileKey(files[b].file)
      /\ files[a].id # files[b].id

====
